---- MODULE Spec2Model ----
(***************************************************************************)
(* samsimpson1/stonks: a market-sale scraper.                              *)
(*                                                                         *)
(*   database.py  class StonksDatabase: the record store handle            *)
(*                (insert_world, get_item_name, store_item_name,           *)
(*                insert_sale) with its process-local item_cache and its   *)
(*                metrics counters.                                        *)
(*   scrape.py    the scraper process: get_worlds (bootstrap),             *)
(*                subscribe_to_worlds, on_message / process_sale /         *)
(*                store_item_name, on_error, graceful_shutdown.            *)
(*                                                                         *)
(* Both open the same SQLite file (/data/stonks.db), so the three tables   *)
(* worlds, items and sales are one shared store.  A table is the set of    *)
(* its rows; the PRIMARY KEY constraints are enforced by the operators     *)
(* that model the SQL statements, not by the representation.               *)
(***************************************************************************)
EXTENDS Integers, Sequences, FiniteSets, TLC

(***************************************************************************)
(* Program constants.                                                      *)
(***************************************************************************)
\* database.py:132 and scrape.py:86, 60 * 60 * 24 * 7 seconds.
WEEK == 60 * 60 * 24 * 7

\* database.py:93 and scrape.py:33, the "+ 30" of the cache freshness test.
FRESH == 30

\* database.py:110, the not-found code of the item lookup.
NOT_FOUND == 404

\* Python's None (SQL NULL when stored); differs from every string used.
None == "<None>"

(***************************************************************************)
(* Bounds of the model.                                                    *)
(***************************************************************************)
\* time() when the model starts.
Epoch == 1700000000

\* The clock advances at most this many seconds.
MaxTick == 1

\* Calls made on the StonksDatabase handle.
MaxCalls == 2

\* StonksDatabase handles constructed after the first one (process restarts).
MaxReopen == 1

(***************************************************************************)
(* Input domains.                                                          *)
(***************************************************************************)
\* Always too old; on the edge of the window at Epoch (too old one second
\* later); always in the future.
Timestamps == {Epoch - WEEK - 1, Epoch - WEEK, Epoch + MaxTick + 1}

WorldIds == {401, 402}
ItemIds == {1, 2}
Prices == {5, 6}
Quantities == {1, 2}
Buyers == {"A", "B"}

\* Arguments of insert_sale: every key and, for each key, a base sale and
\* the sales that differ from it in exactly one of world_id, quantity, buyer.
SaleArgs ==
  { a \in [timestamp : Timestamps, world_id : WorldIds, item_id : ItemIds,
           price : Prices, quantity : Quantities, buyer : Buyers] :
      Cardinality({f \in {"w", "q", "b"} :
                     \/ f = "w" /\ a.world_id # 401
                     \/ f = "q" /\ a.quantity # 1
                     \/ f = "b" /\ a.buyer # "A"}) <= 1 }

(***************************************************************************)
(* State.                                                                  *)
(***************************************************************************)
VARIABLES
  now,                \* time(), in whole seconds
  sales,              \* table sales: set of rows
  items,              \* table items: set of rows [item_id, item_name]
  worlds,             \* table worlds: set of rows [world_id, world_name]
  item_cache,         \* StonksDatabase.item_cache: item id -> time checked
  ret,                \* the last call on the handle and what it returned
  calls,              \* calls made on StonksDatabase handles so far
  reopened,           \* handles constructed after the first one
  sales_inserted,     \* counter stonks_sales_inserted_total
  sales_skipped,      \* counter stonks_sales_skipped_total, by reason
  xivapi,             \* lookups the item-name service received, per item id
  pc,                 \* the scraper process: where it is
  WORLDS,             \* scrape.py WORLDS: world id -> world name
  ITEM_LAST_CHECKED,  \* scrape.py ITEM_LAST_CHECKED: item id -> time checked
  sent,               \* subscribe messages sent on the feed connection
  unprocessed,        \* rest of the frame whose dispatch raised
  error,              \* the exception handed to on_error
  txn,                \* rows written on the connection, not yet committed
  closed              \* what graceful_shutdown has closed, in order

store == <<sales, items, worlds>>
handle == <<item_cache, ret, calls, reopened, sales_inserted, sales_skipped>>
scraper == <<pc, WORLDS, ITEM_LAST_CHECKED, sent, unprocessed, error, txn,
             closed>>
vars == <<now, store, handle, xivapi, scraper>>

PyBool(b) == IF b THEN "True" ELSE "False"

\* Python truthiness of a name read from the store: None and "" are falsy.
Truthy(v) == v # None /\ v # ""

(***************************************************************************)
(* The store: SQL statements on sets of rows.                              *)
(***************************************************************************)
\* PRIMARY KEY (timestamp, item_id, price) of sales.
SaleKey(r) == <<r.timestamp, r.item_id, r.price>>

RowsWithKey(table, key) == {r \in table : SaleKey(r) = key}

\* INSERT INTO sales ... ON CONFLICT DO NOTHING: the table afterwards.
InsertSaleNoConflictCheck(table, row) == table \cup {row}

\* The same statement under FOREIGN KEY (world_id) REFERENCES worlds.
InsertSaleRowIfWorldRegistered(table, row) ==
  IF RowsWithKey(table, SaleKey(row)) # {}
       \/ ~ \E w \in worlds : w.world_id = row.world_id
  THEN table ELSE table \cup {row}

InsertSaleRow(table, row) ==
  IF RowsWithKey(table, SaleKey(row)) # {} THEN table ELSE table \cup {row}

RowCountAlwaysOne(table, row) == 1

\* cursor.rowcount after that statement.
RowCount(table, row) ==
  IF RowsWithKey(table, SaleKey(row)) # {} THEN 0 ELSE 1

(***************************************************************************)
(* StonksDatabase.insert_sale                                              *)
(***************************************************************************)
TooOldEightDays(timestamp, t) == timestamp < t - (60 * 60 * 24 * 8)

\* time_last_week = time() - 7 days; timestamp < time_last_week
TooOld(timestamp, t) == timestamp < t - WEEK

AdmittedAlways(rowcount) == TRUE

\* return cur.rowcount > 0
Admitted(rowcount) == rowcount > 0

insert_sale(timestamp, world_id, item_id, price, quantity, buyer) ==
  LET row == [timestamp |-> timestamp, world_id |-> world_id,
              item_id |-> item_id, price |-> price,
              quantity |-> quantity, buyer |-> buyer]
      rowcount == RowCount(sales, row)
  IN /\ calls < MaxCalls
     /\ calls' = calls + 1
     /\ IF TooOld(timestamp, now)
        THEN /\ sales_skipped' = [sales_skipped EXCEPT !.too_old = @ + 1]
             /\ ret' = [op |-> "insert_sale", val |-> PyBool(FALSE)]
             /\ UNCHANGED <<sales, sales_inserted>>
        ELSE /\ sales' = InsertSaleRow(sales, row)
             /\ IF rowcount > 0
                THEN /\ sales_inserted' = sales_inserted + 1
                     /\ UNCHANGED sales_skipped
                ELSE /\ sales_skipped' =
                          [sales_skipped EXCEPT !.duplicate = @ + 1]
                     /\ UNCHANGED sales_inserted
             /\ ret' = [op |-> "insert_sale", val |-> PyBool(Admitted(rowcount))]
     /\ UNCHANGED <<now, items, worlds, item_cache, reopened, xivapi, scraper>>

InsertSale ==
  \E a \in SaleArgs :
    insert_sale(a.timestamp, a.world_id, a.item_id, a.price, a.quantity, a.buyer)

(***************************************************************************)
(* StonksDatabase.insert_world                                             *)
(***************************************************************************)
\* Names a caller registers a world under; "Omega" is a name the world
\* directory never gives.
WorldNames == {"Alpha", "Omega"}

WorldRows(table, world_id) == {r \in table : r.world_id = world_id}

\* INSERT OR REPLACE INTO worlds (world_id, world_name) VALUES (?, ?)
InsertOrReplaceWorld(table, row) ==
  (table \ WorldRows(table, row.world_id)) \cup {row}

\* INSERT INTO worlds (world_id, world_name) VALUES (?, ?)
\* ON CONFLICT DO NOTHING
InsertWorldOrIgnore(table, row) ==
  IF WorldRows(table, row.world_id) # {} THEN table ELSE table \cup {row}

insert_world(world_id, world_name) ==
  /\ calls < MaxCalls
  /\ calls' = calls + 1
  /\ worlds' = InsertWorldOrIgnore(worlds,
                  [world_id |-> world_id, world_name |-> world_name])
  /\ ret' = [op |-> "insert_world", val |-> None]
  /\ UNCHANGED <<now, sales, items, item_cache, reopened, sales_inserted,
                 sales_skipped, xivapi, scraper>>

InsertWorld ==
  \E world_id \in WorldIds, world_name \in WorldNames :
    insert_world(world_id, world_name)

(***************************************************************************)
(* The item-name service (XIVAPI), as database.py reads its answers.       *)
(***************************************************************************)
ItemNames == {"Yan Horn", ""}

\* A JSON answer is a record: a name, the not-found code, another code, or
\* neither "fields" nor "code".
Responses ==
  {[fields |-> [Name |-> n]] : n \in ItemNames}
    \cup {[code |-> NOT_FOUND], [code |-> 500], [message |-> "error"]}

\* "Unknown Item %s" % item_id
Placeholder(item_id) == "Unknown Item " \o ToString(item_id)

(***************************************************************************)
(* StonksDatabase.get_item_name                                            *)
(***************************************************************************)
ItemRows(table, item_id) == {r \in table : r.item_id = item_id}

\* SELECT item_name FROM items WHERE item_id = ?; res[0] if res else None
get_item_name(table, item_id) ==
  IF ItemRows(table, item_id) = {}
  THEN None
  ELSE (CHOOSE r \in ItemRows(table, item_id) : TRUE).item_name

GetItemName ==
  \E item_id \in ItemIds :
    /\ ret' = [op |-> "get_item_name", val |-> get_item_name(items, item_id)]
    /\ UNCHANGED <<now, store, item_cache, calls, reopened, sales_inserted,
                   sales_skipped, xivapi, scraper>>

(***************************************************************************)
(* StonksDatabase.store_item_name                                          *)
(***************************************************************************)
\* No entry is ever fresh.
CacheNeverFresh(cache, item_id, t) == FALSE

\* An entry is fresh for 30 seconds after it was written.
CacheFreshThirtySeconds(cache, item_id, t) ==
  item_id \in DOMAIN cache /\ cache[item_id] > t - FRESH

\* item_id_int in self.item_cache and self.item_cache[item_id_int] < time() + 30
CacheFresh(cache, item_id, t) ==
  item_id \in DOMAIN cache /\ cache[item_id] < t + FRESH

\* if self.get_item_name(item_id_int): return
StoreHit(table, item_id) == Truthy(get_item_name(table, item_id))

\* INSERT INTO items (item_id, item_name) VALUES (?, ?): the PRIMARY KEY
\* makes it raise IntegrityError when the id has a row.
InsertItemRaises(table, item_id) == ItemRows(table, item_id) # {}

store_item_name(item_id, xivapi_response) ==
  /\ calls < MaxCalls
  /\ calls' = calls + 1
  /\ IF CacheFresh(item_cache, item_id, now)
     THEN /\ ret' = [op |-> "store_item_name", val |-> None]
          /\ UNCHANGED <<items, item_cache, xivapi>>
     ELSE
       /\ item_cache' = (item_id :> now) @@ item_cache
       /\ IF StoreHit(items, item_id)
          THEN /\ ret' = [op |-> "store_item_name", val |-> None]
               /\ UNCHANGED <<items, xivapi>>
          ELSE
            /\ xivapi' = [xivapi EXCEPT ![item_id] = @ + 1]
            /\ IF "fields" \notin DOMAIN xivapi_response
                  /\ "code" \notin DOMAIN xivapi_response
               THEN \* xivapi_response["code"] raises
                    /\ ret' = [op |-> "store_item_name", val |-> "KeyError"]
                    /\ UNCHANGED items
               ELSE IF "fields" \notin DOMAIN xivapi_response
                       /\ xivapi_response.code # NOT_FOUND
               THEN /\ ret' = [op |-> "store_item_name", val |-> None]
                    /\ UNCHANGED items
               ELSE LET item_name ==
                          IF "fields" \notin DOMAIN xivapi_response
                          THEN Placeholder(item_id)
                          ELSE xivapi_response.fields.Name
                    IN IF InsertItemRaises(items, item_id)
                       THEN /\ ret' = [op |-> "store_item_name",
                                       val |-> "IntegrityError"]
                            /\ UNCHANGED items
                       ELSE /\ items' = items \cup
                                 {[item_id |-> item_id, item_name |-> item_name]}
                            /\ ret' = [op |-> "store_item_name", val |-> None]
  /\ UNCHANGED <<now, sales, worlds, reopened, sales_inserted, sales_skipped,
                 scraper>>

StoreItemName ==
  \E item_id \in ItemIds, xivapi_response \in Responses :
    store_item_name(item_id, xivapi_response)

(***************************************************************************)
(* StonksDatabase.__init__ on the existing file: a process restart.  The   *)
(* tables are kept (CREATE TABLE IF NOT EXISTS), the cache starts empty.   *)
(***************************************************************************)
Reopen ==
  /\ reopened < MaxReopen
  /\ reopened' = reopened + 1
  /\ item_cache' = <<>>
  /\ ret' = [op |-> "__init__", val |-> None]
  /\ UNCHANGED <<now, store, calls, sales_inserted, sales_skipped, xivapi,
                 scraper>>

(***************************************************************************)
(* scrape.py: what the feed provider and the item service answer.          *)
(***************************************************************************)
\* scrape.py:16
DC == "Light"

\* GET /api/v2/data-centers: the region with two worlds, with one, with
\* none, or missing from the list.
DcLists ==
  { <<[name |-> "Chaos", worlds |-> <<403>>],
      [name |-> "Light", worlds |-> <<401, 402>>]>>,
    <<[name |-> "Light", worlds |-> <<401>>]>>,
    <<[name |-> "Light", worlds |-> <<>>]>>,
    <<[name |-> "Chaos", worlds |-> <<403>>]>> }

\* GET /api/v2/worlds: the directory, with or without world 402.
WorldLists ==
  { <<[id |-> 401, name |-> "Alpha"], [id |-> 402, name |-> "Beta"]>>,
    <<[id |-> 401, name |-> "Alpha"]>> }

\* GET xivapi.com/item/<id>: with the key Name_en or without it.
ItemResponses == {[Name_en |-> "Yan Horn"], [Error |-> "Not Found"]}

\* One sale of an inbound frame; the last one lacks the key 'timestamp'.
FeedSales ==
  { [timestamp |-> t, pricePerUnit |-> 5, quantity |-> 1, buyerName |-> b] :
      t \in Timestamps, b \in Buyers }
    \cup {[pricePerUnit |-> 5, quantity |-> 1, buyerName |-> "A"]}

\* decode(message): one item, one world, one or two sales.
Frames ==
  { [item |-> 1, world |-> w, sales |-> ss] :
      w \in WorldIds,
      ss \in {<<a>> : a \in FeedSales} \cup (FeedSales \X FeedSales) }

(***************************************************************************)
(* scrape.py get_worlds                                                    *)
(***************************************************************************)
\* for dc in dc_list: if dc['name'] == DC: dc_worlds = dc['worlds']
DcWorlds(dc_list) ==
  LET hits == {i \in DOMAIN dc_list : dc_list[i].name = DC}
  IN IF hits = {} THEN <<>>
     ELSE dc_list[CHOOSE i \in hits : \A j \in hits : j <= i].worlds

\* A lookup that names a world it does not find.
find_world_or_unknown(world_list, id) ==
  LET hits == {i \in DOMAIN world_list : world_list[i].id = id}
  IN IF hits = {} THEN "Unknown"
     ELSE world_list[CHOOSE i \in hits : \A j \in hits : i <= j].name

\* find_world_in_list: the first match's name; no match returns None.
find_world_in_list(world_list, id) ==
  LET hits == {i \in DOMAIN world_list : world_list[i].id = id}
  IN IF hits = {} THEN None
     ELSE world_list[CHOOSE i \in hits : \A j \in hits : i <= j].name

\* The statement left out: no row is written.
InsertWorldRowDropped(table, row) == table

\* INSERT INTO worlds ... ON CONFLICT DO NOTHING
InsertWorldRow(table, row) ==
  IF \E r \in table : r.world_id = row.world_id THEN table ELSE table \cup {row}

RECURSIVE InsertWorldRows(_, _)
InsertWorldRows(table, rows) ==
  IF rows = <<>> THEN table
  ELSE InsertWorldRows(InsertWorldRow(table, Head(rows)), Tail(rows))

NeverHalts(dc_worlds) == FALSE

\* if len(dc_worlds) < 1: exit(1)
NoWorlds(dc_worlds) == Len(dc_worlds) < 1

\* get_worlds, then start_websocket_connection and run_forever.
get_worlds(dc_list, world_list) ==
  LET dc_worlds == DcWorlds(dc_list)
      names == [i \in DOMAIN dc_worlds |->
                  find_world_in_list(world_list, dc_worlds[i])]
      rows == [i \in DOMAIN dc_worlds |->
                  [world_id |-> dc_worlds[i], world_name |-> names[i]]]
  IN /\ pc = "start"
     /\ IF NoWorlds(dc_worlds)
        THEN /\ pc' = "exited"
             /\ UNCHANGED <<worlds, WORLDS>>
        ELSE /\ worlds' = InsertWorldRows(worlds, rows)
             /\ WORLDS' = [w \in {dc_worlds[i] : i \in DOMAIN dc_worlds} |->
                             names[CHOOSE i \in DOMAIN dc_worlds :
                                     /\ dc_worlds[i] = w
                                     /\ \A j \in DOMAIN dc_worlds :
                                          dc_worlds[j] = w => j <= i]]
             /\ pc' = "connecting"
     /\ UNCHANGED <<now, sales, items, handle, xivapi, ITEM_LAST_CHECKED, sent,
                    unprocessed, error, txn, closed>>

GetWorlds ==
  \E dc_list \in DcLists, world_list \in WorldLists :
    get_worlds(dc_list, world_list)

(***************************************************************************)
(* scrape.py subscribe_to_worlds (on_open)                                 *)
(***************************************************************************)
ChannelRemove(world) == "sales/remove{world=" \o ToString(world) \o "}"

\* f"sales/add{{world={world}}}"
Channel(world) == "sales/add{world=" \o ToString(world) \o "}"

\* The keys of WORLDS in ascending order (the two orders coincide for the
\* regions modelled).
RECURSIVE Ascending(_)
Ascending(S) ==
  IF S = {} THEN <<>>
  ELSE LET m == CHOOSE x \in S : \A y \in S : x <= y
       IN <<m>> \o Ascending(S \ {m})

subscribe_to_worlds ==
  /\ pc = "connecting"
  /\ sent' = [i \in DOMAIN Ascending(DOMAIN WORLDS) |->
                [event |-> "subscribe",
                 channel |-> Channel(Ascending(DOMAIN WORLDS)[i])]]
  /\ pc' = "receiving"
  /\ UNCHANGED <<now, store, handle, xivapi, WORLDS, ITEM_LAST_CHECKED,
                 unprocessed, error, txn, closed>>

(***************************************************************************)
(* scrape.py store_item_name, process_sale, on_message, on_error           *)
(*                                                                         *)
(* The run of a handler is a record st: the tables and the cache as the    *)
(* handler has left them so far, and the exception it raised, if any.      *)
(***************************************************************************)
\* process_sale without its call of store_item_name.
store_item_name_skipped(st, item_id, response) == st

\* scrape.py store_item_name
scrape_store_item_name(st, item_id, response) ==
  IF item_id \in DOMAIN st.cache /\ st.cache[item_id] < now + FRESH
  THEN st
  ELSE LET st1 == [st EXCEPT !.cache = (item_id :> now) @@ st.cache]
       IN IF ItemRows(st1.items, item_id) # {}
          THEN st1
          ELSE LET st2 == [st1 EXCEPT !.xivapi[item_id] = @ + 1]
               IN IF "Name_en" \notin DOMAIN response
                  THEN [st2 EXCEPT !.raised = "KeyError: 'Name_en'"]
                  ELSE [st2 EXCEPT !.items = @ \cup
                          {[item_id |-> item_id, item_name |-> response.Name_en]}]

ProcessSaleTooOldEightDays(timestamp, t) == timestamp < t - (60 * 60 * 24 * 8)

\* time_last_week = (time() - (60 * 60 * 24 * 7)); timestamp < time_last_week
ProcessSaleTooOld(timestamp, t) == timestamp < t - WEEK

\* INSERT INTO sales ... ON CONFLICT DO NOTHING, as process_sale runs it.
ProcessSaleInsert(table, row) ==
  IF RowsWithKey(table, SaleKey(row)) # {} THEN table ELSE table \cup {row}

process_sale(st, item_id, world_id, sale, response) ==
  IF "timestamp" \notin DOMAIN sale
  THEN [st EXCEPT !.raised = "KeyError: 'timestamp'"]
  ELSE IF world_id \notin DOMAIN WORLDS
  THEN [st EXCEPT !.raised = "KeyError: " \o ToString(world_id)]
  ELSE LET st1 == scrape_store_item_name(st, item_id, response)
       IN IF st1.raised # None THEN st1
          ELSE IF ProcessSaleTooOld(sale.timestamp, now) THEN st1
          ELSE [st1 EXCEPT !.sales =
                  ProcessSaleInsert(@,
                    [timestamp |-> sale.timestamp, world_id |-> world_id,
                     item_id |-> item_id, price |-> sale.pricePerUnit,
                     quantity |-> sale.quantity, buyer |-> sale.buyerName])]

\* for sale in sales['sales']: process_sale(item_id, world_id, sale)
\* An exception leaves the loop; rest holds the sale that raised and the
\* sales after it.
RECURSIVE dispatch(_, _, _, _, _)
dispatch(st, item_id, world_id, rest, response) ==
  IF rest = <<>> THEN st
  ELSE LET st1 == process_sale(st, item_id, world_id, Head(rest), response)
       IN IF st1.raised # None
          THEN [st1 EXCEPT !.rest = rest]
          ELSE dispatch(st1, item_id, world_id, Tail(rest), response)

on_message(message, response) ==
  LET st0 == [items |-> items, sales |-> sales, cache |-> ITEM_LAST_CHECKED,
              xivapi |-> xivapi, raised |-> None, rest |-> <<>>]
      st == dispatch(st0, message.item, message.world, message.sales, response)
  IN /\ pc = "receiving"
     /\ items' = st.items
     /\ sales' = st.sales
     /\ ITEM_LAST_CHECKED' = st.cache
     /\ xivapi' = st.xivapi
     /\ error' = st.raised
     /\ unprocessed' = IF st.raised = None THEN <<>>
                       ELSE [item |-> message.item, world |-> message.world,
                             sales |-> st.rest]
     /\ pc' = IF st.raised = None THEN "receiving" ELSE "on_error"
     /\ UNCHANGED <<now, worlds, handle, WORLDS, sent, txn, closed>>

OnMessage ==
  \E message \in Frames, response \in ItemResponses :
    on_message(message, response)

\* Frames that carry the one sale on the edge of the window.
EdgeFrames ==
  {message \in Frames :
     message.sales = <<[timestamp |-> Epoch - WEEK, pricePerUnit |-> 5,
                        quantity |-> 1, buyerName |-> "A"]>>}

OnEdgeFrame ==
  \E message \in EdgeFrames, response \in ItemResponses :
    on_message(message, response)

\* on_error logs the exception; the receive loop goes on.
on_error ==
  /\ pc = "on_error"
  /\ pc' = "receiving"
  /\ error' = None
  /\ unprocessed' = <<>>
  /\ UNCHANGED <<now, store, handle, xivapi, WORLDS, ITEM_LAST_CHECKED, sent,
                 txn, closed>>

\* The row process_sale writes for a sale of a frame.
FrameRow(message, sale) ==
  [timestamp |-> sale.timestamp, world_id |-> message.world,
   item_id |-> message.item, price |-> sale.pricePerUnit,
   quantity |-> sale.quantity, buyer |-> sale.buyerName]

(***************************************************************************)
(* scrape.py on_message and process_sale statement by statement, as        *)
(* graceful_shutdown meets them: a Python signal handler runs in the main  *)
(* thread between two of its statements.  unprocessed holds the frame      *)
(* being dispatched, the sale in process_sale first.                       *)
(***************************************************************************)
\* on_message lines 108-111: the frame is decoded and the loop entered.
on_message_begin(message) ==
  /\ pc = "receiving"
  /\ unprocessed' = message
  /\ pc' = "process_sale"
  /\ UNCHANGED <<now, store, handle, xivapi, WORLDS, ITEM_LAST_CHECKED, sent,
                 error, txn, closed>>

OnMessageBegin == \E message \in Frames : on_message_begin(message)

\* process_sale lines 78-84: store_item_name has run up to its INSERT
\* (line 41), which is not committed yet.
process_sale_resolve(response) ==
  LET sale == Head(unprocessed.sales)
      st0 == [items |-> items, sales |-> sales, cache |-> ITEM_LAST_CHECKED,
              xivapi |-> xivapi, raised |-> None, rest |-> <<>>]
      st == IF "timestamp" \notin DOMAIN sale
            THEN [st0 EXCEPT !.raised = "KeyError: 'timestamp'"]
            ELSE IF unprocessed.world \notin DOMAIN WORLDS
            THEN [st0 EXCEPT !.raised =
                    "KeyError: " \o ToString(unprocessed.world)]
            ELSE scrape_store_item_name(st0, unprocessed.item, response)
      written == {[table |-> "items", row |-> r] : r \in st.items \ items}
  IN /\ pc = "process_sale"
     /\ ITEM_LAST_CHECKED' = st.cache
     /\ xivapi' = st.xivapi
     /\ error' = st.raised
     /\ txn' = written
     /\ pc' = IF st.raised # None THEN "on_error"
              ELSE IF written # {} THEN "item_inserted"
              ELSE "item_resolved"
     /\ UNCHANGED <<now, store, handle, WORLDS, sent, unprocessed, closed>>

ProcessSaleResolve ==
  \E response \in ItemResponses : process_sale_resolve(response)

\* store_item_name line 42: sql.commit()
store_item_name_commit ==
  /\ pc = "item_inserted"
  /\ items' = items \cup {t.row : t \in txn}
  /\ txn' = {}
  /\ pc' = "item_resolved"
  /\ UNCHANGED <<now, sales, worlds, handle, xivapi, WORLDS, ITEM_LAST_CHECKED,
                 sent, unprocessed, error, closed>>

\* The loop of on_message goes to the next sale, or the handler returns.
NextSale(frame) ==
  IF Len(frame.sales) = 1 THEN <<>> ELSE [frame EXCEPT !.sales = Tail(@)]

\* process_sale lines 86-96: the window test, then the INSERT executed and
\* not committed yet.
process_sale_insert ==
  LET sale == Head(unprocessed.sales)
      row == FrameRow(unprocessed, sale)
  IN /\ pc = "item_resolved"
     /\ IF ProcessSaleTooOld(sale.timestamp, now)
        THEN /\ unprocessed' = NextSale(unprocessed)
             /\ pc' = IF Len(unprocessed.sales) = 1 THEN "receiving"
                      ELSE "process_sale"
             /\ UNCHANGED txn
        ELSE /\ txn' = {[table |-> "sales", row |-> r] :
                         r \in ProcessSaleInsert(sales, row) \ sales}
             /\ pc' = "sale_inserted"
             /\ UNCHANGED unprocessed
     /\ UNCHANGED <<now, store, handle, xivapi, WORLDS, ITEM_LAST_CHECKED,
                    sent, error, closed>>

\* process_sale line 97: sql.commit()
process_sale_commit ==
  /\ pc = "sale_inserted"
  /\ sales' = sales \cup {t.row : t \in txn}
  /\ txn' = {}
  /\ unprocessed' = NextSale(unprocessed)
  /\ pc' = IF Len(unprocessed.sales) = 1 THEN "receiving" ELSE "process_sale"
  /\ UNCHANGED <<now, items, worlds, handle, xivapi, WORLDS,
                 ITEM_LAST_CHECKED, sent, error, closed>>

(***************************************************************************)
(* scrape.py graceful_shutdown, the handler of SIGINT and SIGTERM          *)
(* installed at lines 139-140.  ws is None until line 146; sql.close()     *)
(* with a transaction open discards its rows; sys.exit(0) ends the         *)
(* process.                                                                *)
(***************************************************************************)
graceful_shutdown ==
  /\ pc \notin {"exited", "shutdown"}
  /\ \E ws_set \in (IF pc = "start" THEN {FALSE}
                     ELSE IF pc = "connecting" THEN BOOLEAN
                     ELSE {TRUE}) :
       closed' = IF ws_set THEN <<"ws", "sql">> ELSE <<"sql">>
  /\ txn' = {}
  /\ pc' = "shutdown"
  /\ UNCHANGED <<now, store, handle, xivapi, WORLDS, ITEM_LAST_CHECKED, sent,
                 unprocessed, error>>

(***************************************************************************)
(* scrape.py started again on the existing file: the module globals start  *)
(* empty, the tables are kept (CREATE TABLE IF NOT EXISTS).                *)
(***************************************************************************)
Restart ==
  /\ pc \in {"receiving", "exited"}
  /\ reopened < MaxReopen
  /\ reopened' = reopened + 1
  /\ pc' = "start"
  /\ WORLDS' = <<>>
  /\ ITEM_LAST_CHECKED' = <<>>
  /\ sent' = <<>>
  /\ UNCHANGED <<now, store, item_cache, ret, calls, sales_inserted,
                 sales_skipped, xivapi, unprocessed, error, txn, closed>>

(***************************************************************************)
(* insert_sale called with sales of the shape the feed delivers.           *)
(***************************************************************************)
FeedSaleArgs ==
  {a \in SaleArgs : a.item_id = 1 /\ a.price = 5 /\ a.quantity = 1}

InsertFeedSale ==
  \E a \in FeedSaleArgs :
    insert_sale(a.timestamp, a.world_id, a.item_id, a.price, a.quantity, a.buyer)

\* The same sale handed to insert_sale.
EdgeSaleArgs ==
  {a \in FeedSaleArgs : a.timestamp = Epoch - WEEK /\ a.buyer = "A"}

InsertEdgeSale ==
  \E a \in EdgeSaleArgs :
    insert_sale(a.timestamp, a.world_id, a.item_id, a.price, a.quantity, a.buyer)

(***************************************************************************)
(* StonksDatabase statement by statement: each method executes its INSERT, *)
(* commits, and returns; the process can be killed between two statements. *)
(* While a method runs, ret holds its name and Running.                    *)
(***************************************************************************)
Running == "<running>"

\* The scraper's own state, which a StonksDatabase handle leaves alone.
feed == <<pc, WORLDS, ITEM_LAST_CHECKED, sent, unprocessed, error, closed>>

\* The rows an INSERT added to a table, written and not committed.
Written(name, before, after) ==
  {[table |-> name, row |-> r] : r \in after \ before}

\* A return without self.connection.commit(): nothing reaches the file.
CommitDropped(table, name, pending) == table

\* self.connection.commit(): the table of that name afterwards.
Commit(table, name, pending) ==
  table \cup {t.row : t \in {u \in pending : u.table = name}}

\* insert_world up to cur.execute (database.py:74-78)
insert_world_execute(world_id, world_name) ==
  /\ calls < MaxCalls
  /\ ret.val # Running
  /\ calls' = calls + 1
  /\ txn' = Written("worlds", worlds,
                    InsertWorldOrIgnore(worlds, [world_id |-> world_id,
                                                 world_name |-> world_name]))
  /\ ret' = [op |-> "insert_world", val |-> Running]
  /\ UNCHANGED <<now, store, item_cache, reopened, sales_inserted,
                 sales_skipped, xivapi, feed>>

InsertWorldExecute ==
  \E world_id \in WorldIds, world_name \in WorldNames :
    insert_world_execute(world_id, world_name)

\* insert_sale up to cur.execute (database.py:132-145); the too-old exit
\* returns before any statement.
insert_sale_execute(timestamp, world_id, item_id, price, quantity, buyer) ==
  LET row == [timestamp |-> timestamp, world_id |-> world_id,
              item_id |-> item_id, price |-> price,
              quantity |-> quantity, buyer |-> buyer]
  IN /\ calls < MaxCalls
     /\ ret.val # Running
     /\ calls' = calls + 1
     /\ IF TooOld(timestamp, now)
        THEN /\ sales_skipped' = [sales_skipped EXCEPT !.too_old = @ + 1]
             /\ ret' = [op |-> "insert_sale", val |-> PyBool(FALSE)]
             /\ UNCHANGED txn
        ELSE /\ txn' = Written("sales", sales, InsertSaleRow(sales, row))
             /\ ret' = [op |-> "insert_sale", val |-> Running]
             /\ UNCHANGED sales_skipped
     /\ UNCHANGED <<now, store, item_cache, reopened, sales_inserted, xivapi,
                    feed>>

InsertSaleExecute ==
  \E a \in FeedSaleArgs :
    insert_sale_execute(a.timestamp, a.world_id, a.item_id, a.price,
                        a.quantity, a.buyer)

\* store_item_name up to cur.execute (database.py:90-126); the exits
\* before the INSERT return, or raise, with nothing written.
store_item_name_execute(item_id, xivapi_response) ==
  /\ calls < MaxCalls
  /\ ret.val # Running
  /\ calls' = calls + 1
  /\ IF CacheFresh(item_cache, item_id, now)
     THEN /\ ret' = [op |-> "store_item_name", val |-> None]
          /\ UNCHANGED <<item_cache, xivapi, txn>>
     ELSE
       /\ item_cache' = (item_id :> now) @@ item_cache
       /\ IF StoreHit(items, item_id)
          THEN /\ ret' = [op |-> "store_item_name", val |-> None]
               /\ UNCHANGED <<xivapi, txn>>
          ELSE
            /\ xivapi' = [xivapi EXCEPT ![item_id] = @ + 1]
            /\ IF "fields" \notin DOMAIN xivapi_response
                  /\ "code" \notin DOMAIN xivapi_response
               THEN /\ ret' = [op |-> "store_item_name", val |-> "KeyError"]
                    /\ UNCHANGED txn
               ELSE IF "fields" \notin DOMAIN xivapi_response
                       /\ xivapi_response.code # NOT_FOUND
               THEN /\ ret' = [op |-> "store_item_name", val |-> None]
                    /\ UNCHANGED txn
               ELSE IF InsertItemRaises(items, item_id)
               THEN /\ ret' = [op |-> "store_item_name",
                               val |-> "IntegrityError"]
                    /\ UNCHANGED txn
               ELSE /\ txn' = {[table |-> "items",
                                row |-> [item_id |-> item_id,
                                         item_name |->
                                           IF "fields" \notin
                                                DOMAIN xivapi_response
                                           THEN Placeholder(item_id)
                                           ELSE xivapi_response.fields.Name]]}
                    /\ ret' = [op |-> "store_item_name", val |-> Running]
  /\ UNCHANGED <<now, store, reopened, sales_inserted, sales_skipped, feed>>

StoreItemNameExecute ==
  \E item_id \in ItemIds, xivapi_response \in Responses :
    store_item_name_execute(item_id, xivapi_response)

\* self.connection.commit() and what follows it up to the return
\* (database.py:79, 128-129, 148-155).
commit_and_return ==
  LET rowcount == Cardinality({t \in txn : t.table = "sales"})
  IN /\ ret.val = Running
     /\ sales' = Commit(sales, "sales", txn)
     /\ items' = Commit(items, "items", txn)
     /\ worlds' = Commit(worlds, "worlds", txn)
     /\ txn' = {}
     /\ IF ret.op = "insert_sale"
        THEN /\ ret' = [ret EXCEPT !.val = PyBool(Admitted(rowcount))]
             /\ IF rowcount > 0
                THEN /\ sales_inserted' = sales_inserted + 1
                     /\ UNCHANGED sales_skipped
                ELSE /\ sales_skipped' =
                          [sales_skipped EXCEPT !.duplicate = @ + 1]
                     /\ UNCHANGED sales_inserted
        ELSE /\ ret' = [ret EXCEPT !.val = None]
             /\ UNCHANGED <<sales_inserted, sales_skipped>>
     /\ UNCHANGED <<now, item_cache, calls, reopened, xivapi, feed>>

\* The process is killed and started again: the open transaction is
\* rolled back, the file keeps what was committed, the new handle has an
\* empty cache.
Crash ==
  /\ reopened < MaxReopen
  /\ reopened' = reopened + 1
  /\ txn' = {}
  /\ item_cache' = <<>>
  /\ ret' = [op |-> "__init__", val |-> None]
  /\ UNCHANGED <<now, store, calls, sales_inserted, sales_skipped, xivapi,
                 feed>>

(***************************************************************************)
(* The clock.                                                              *)
(***************************************************************************)
Tick ==
  /\ now < Epoch + MaxTick
  /\ now' = now + 1
  /\ UNCHANGED <<store, handle, xivapi, scraper>>

\* More than the 30 seconds of the freshness test pass at once.
Sleep ==
  /\ now <= Epoch + MaxTick
  /\ now' = now + FRESH + 1
  /\ UNCHANGED <<store, handle, xivapi, scraper>>

(***************************************************************************)
(* Initial state: an empty store, a fresh handle, the scraper not started. *)
(***************************************************************************)
Init ==
  /\ now = Epoch
  /\ sales = {}
  /\ items = {}
  /\ worlds = {}
  /\ item_cache = <<>>
  /\ ret = [op |-> "__init__", val |-> None]
  /\ calls = 0
  /\ reopened = 0
  /\ sales_inserted = 0
  /\ sales_skipped = [too_old |-> 0, duplicate |-> 0]
  /\ xivapi = [i \in ItemIds |-> 0]
  /\ pc = "start"
  /\ WORLDS = <<>>
  /\ ITEM_LAST_CHECKED = <<>>
  /\ sent = <<>>
  /\ unprocessed = <<>>
  /\ error = None
  /\ txn = {}
  /\ closed = <<>>

(***************************************************************************)
(* insert_sale alone: calls on one handle while time passes.               *)
(***************************************************************************)
NextSales == Tick \/ InsertSale

SpecSales == Init /\ [][NextSales]_vars

(***************************************************************************)
(* Item names alone: store_item_name and get_item_name on one store,       *)
(* across restarts, while time passes.                                     *)
(***************************************************************************)
NextItems == Tick \/ StoreItemName \/ GetItemName \/ Reopen

SpecItems == Init /\ [][NextItems]_vars

(***************************************************************************)
(* The item cache over time: store_item_name on one store, across          *)
(* restarts, with pauses longer than the freshness span.                   *)
(***************************************************************************)
NextCache == Tick \/ Sleep \/ StoreItemName \/ Reopen

SpecCache == Init /\ [][NextCache]_vars

(***************************************************************************)
(* The scraper process from its start, and a StonksDatabase handle         *)
(* writing sales to the same store.                                        *)
(***************************************************************************)
Next ==
  \/ Tick
  \/ GetWorlds
  \/ subscribe_to_worlds
  \/ OnMessage
  \/ on_error
  \/ InsertFeedSale

Spec == Init /\ [][Next]_vars

(***************************************************************************)
(* The scraper process alone, the only writer of the store, across         *)
(* restarts.                                                               *)
(***************************************************************************)
NextScraper ==
  \/ Tick
  \/ GetWorlds
  \/ subscribe_to_worlds
  \/ OnMessage
  \/ on_error
  \/ Restart

SpecScraper == Init /\ [][NextScraper]_vars

(***************************************************************************)
(* The scraper process statement by statement, with the termination        *)
(* signal arriving at any point.                                           *)
(***************************************************************************)
NextShutdown ==
  \/ Tick
  \/ GetWorlds
  \/ subscribe_to_worlds
  \/ OnMessageBegin
  \/ ProcessSaleResolve
  \/ store_item_name_commit
  \/ process_sale_insert
  \/ process_sale_commit
  \/ on_error
  \/ graceful_shutdown

SpecShutdown == Init /\ [][NextShutdown]_vars

(***************************************************************************)
(* One StonksDatabase handle statement by statement, with crashes.         *)
(***************************************************************************)
NextDurable ==
  \/ InsertWorldExecute
  \/ InsertSaleExecute
  \/ StoreItemNameExecute
  \/ commit_and_return
  \/ Crash

SpecDurable == Init /\ [][NextDurable]_vars

(***************************************************************************)
(* Every writer of the worlds table (insert_world, bootstrap) next to the  *)
(* steps that process sales and resolve names.                             *)
(***************************************************************************)
NextWorlds ==
  \/ InsertWorld
  \/ GetWorlds
  \/ subscribe_to_worlds
  \/ OnEdgeFrame
  \/ on_error
  \/ Restart
  \/ InsertEdgeSale
  \/ StoreItemName

SpecWorlds == Init /\ [][NextWorlds]_vars

(***************************************************************************)
(* Claims about insert_sale.                                               *)
(***************************************************************************)
Call(a) ==
  insert_sale(a.timestamp, a.world_id, a.item_id, a.price, a.quantity, a.buyer)

\* C1: a call of insert_sale whose timestamp is strictly less than
\* now - 7 days returns False and leaves the sales table exactly as it was,
\* whatever the other arguments and whatever the table held.
C1_OldSaleRejected ==
  [][\A a \in SaleArgs :
       (Call(a) /\ a.timestamp < now - WEEK)
         => (ret'.val = "False" /\ sales' = sales)]_vars

\* A too-old call was rejected on a table that already held a row.
C1_Witness ==
  /\ ret = [op |-> "insert_sale", val |-> "False"]
  /\ sales_skipped.too_old = 1
  /\ sales_skipped.duplicate = 0
  /\ sales # {}

C3_DuplicateReturnsTrue ==
  [][\A a \in SaleArgs :
       (Call(a) /\ a.timestamp >= now - WEEK
          /\ (RowsWithKey(sales, SaleKey(a)) = {} \/ a \in sales))
         => (ret'.val = "True"
               /\ Cardinality(RowsWithKey(sales', SaleKey(a))) = 1)]_vars

\* C11: insert_sale does not validate references: a within-window sale
\* with a fresh key returns True and is stored with its world_id and item_id
\* as passed, whether or not worlds has a row for the world_id and whether
\* or not items has a row for the item_id; neither table is touched.
C11_ReferencesNotValidated ==
  [][calls' # calls =>
       \A a \in SaleArgs :
         (Call(a) /\ a.timestamp >= now - WEEK
            /\ RowsWithKey(sales, SaleKey(a)) = {})
           => /\ ret'.val = "True"
              /\ a \in sales'
              /\ worlds' = worlds
              /\ items' = items]_vars

\* The handle has stored the one sale in the store, of world 402 and item
\* 1, while worlds has a row for 401 alone and items has none.
C11_Witness ==
  /\ sales_inserted = 1
  /\ Cardinality(sales) = 1
  /\ ret = [op |-> "insert_sale", val |-> "True"]
  /\ {w.world_id : w \in worlds} = {401}
  /\ {r.world_id : r \in sales} = {402}
  /\ items = {}

LookedUp(item_id, r) ==
  store_item_name(item_id, r) /\ xivapi'[item_id] = xivapi[item_id] + 1

\* C6: get_item_name returns None for every item id without a row in
\* items, and after a store_item_name call whose remote lookup succeeded
\* with a name it returns exactly that name, on this and every later call.
C6_ResolvedNameReturned ==
  [][/\ \A i \in ItemIds :
          ItemRows(items', i) = {} => get_item_name(items', i) = None
     /\ \A i \in ItemIds, r \in Responses :
          (LookedUp(i, r) /\ "fields" \in DOMAIN r)
            => get_item_name(items', i) = r.fields.Name
     /\ \A i \in ItemIds :
          ItemRows(items, i) # {}
            => get_item_name(items', i) = get_item_name(items, i)]_vars

\* C7: when the remote lookup answers 404, store_item_name persists the
\* placeholder "Unknown Item <id>"; from then on no store_item_name call
\* for the id issues a remote lookup, in the same process or after a
\* restart, and get_item_name keeps returning the placeholder.
C7_NotFoundIsPermanent ==
  [][/\ \A i \in ItemIds, r \in Responses :
          (LookedUp(i, r) /\ "fields" \notin DOMAIN r
             /\ "code" \in DOMAIN r /\ r.code = NOT_FOUND)
            => get_item_name(items', i) = Placeholder(i)
     /\ \A i \in ItemIds :
          get_item_name(items, i) = Placeholder(i)
            => /\ xivapi'[i] = xivapi[i]
               /\ get_item_name(items', i) = Placeholder(i)]_vars

\* The lookup answered with a name or with the not-found code.
Answered(r) ==
  "fields" \in DOMAIN r \/ ("code" \in DOMAIN r /\ r.code = NOT_FOUND)

\* C15: after any sequence of store_item_name calls, across restarts and
\* for any name the lookup returns (also an empty one), items holds at most
\* one row per item_id, a stored row is never changed, and a call for an
\* id that already has a row is a silent no-op that never raises.
C15_StoreNameInsertOrIgnore ==
  [][/\ \A i \in ItemIds : Cardinality(ItemRows(items', i)) <= 1
     /\ \A row \in items : row \in items'
     /\ \A i \in ItemIds, r \in Responses :
          (store_item_name(i, r) /\ Answered(r) /\ ItemRows(items, i) # {})
            => (ret'.val = None /\ items' = items)]_vars

\* C16: with a fresh cache entry for the id store_item_name returns at
\* once: no lookup, no write, whatever the store holds; otherwise, with a
\* row for the id in items, it returns without a lookup and without
\* writing items; a lookup is issued only when cache and store both miss.
C16_ResolutionShortCircuits ==
  [][\A i \in ItemIds, r \in Responses :
       store_item_name(i, r)
         => /\ CacheFresh(item_cache, i, now)
                 => /\ ret'.val = None
                    /\ xivapi' = xivapi
                    /\ items' = items
                    /\ item_cache' = item_cache
            /\ (~ CacheFresh(item_cache, i, now) /\ ItemRows(items, i) # {})
                 => /\ ret'.val = None
                    /\ xivapi' = xivapi
                    /\ items' = items
            /\ xivapi'[i] # xivapi[i]
                 => /\ ~ CacheFresh(item_cache, i, now)
                    /\ ItemRows(items, i) = {}]_vars

\* C17: when the lookup answers with neither a name nor the not-found
\* code (another code, or no code field at all) store_item_name returns
\* normally, writes no row to items, and leaves the cache with the entry
\* written at the start of the call and nothing else changed.
C17_MalformedAnswerReturns ==
  [][\A i \in ItemIds, r \in Responses :
       (LookedUp(i, r) /\ ~ Answered(r))
         => /\ ret'.val = None
            /\ items' = items
            /\ item_cache' = (i :> now) @@ item_cache]_vars

\* C18: once an item id has a cache entry, every later store_item_name
\* call for it on the same handle returns at the cache check, however
\* much time has passed: no lookup, no write; so each handle issues at
\* most one lookup per item id.
C18_CacheNeverExpires ==
  [][/\ \A i \in ItemIds, r \in Responses :
          (store_item_name(i, r) /\ i \in DOMAIN item_cache)
            => /\ ret'.val = None
               /\ xivapi' = xivapi
               /\ items' = items
               /\ item_cache' = item_cache
     /\ \A i \in ItemIds : xivapi'[i] <= reopened' + 1]_vars

\* Two calls for item 1 on one handle, one lookup, and the entry is more
\* than 30 seconds old.
C18_Witness ==
  /\ reopened = 0
  /\ calls = 2
  /\ DOMAIN item_cache = {1}
  /\ item_cache[1] + FRESH < now
  /\ xivapi[1] = 1

\* C25: the cache entry of an item id is written before the store read
\* and the lookup of the same call; when the lookup fails (an error answer
\* or an exception) the id stays cached with no row in items, and no later
\* store_item_name call on the same handle looks it up again, however
\* much time has passed: the item stays unnamed until a restart.
C25_FailedLookupStaysCached ==
  [][\A i \in ItemIds, r \in Responses :
       /\ (LookedUp(i, r) /\ ~ Answered(r))
            => /\ i \notin DOMAIN item_cache
               /\ item_cache' = (i :> now) @@ item_cache
               /\ items' = items
       /\ (store_item_name(i, r) /\ i \in DOMAIN item_cache
             /\ ItemRows(items, i) = {})
            => /\ xivapi' = xivapi
               /\ ItemRows(items', i) = {}
               /\ item_cache' = item_cache]_vars

\* The lookup of item 1 failed, more than 30 seconds passed, a second call
\* for item 1 was made on the handle: one lookup, no row.
C25_Witness ==
  /\ reopened = 0
  /\ calls = 2
  /\ DOMAIN item_cache = {1}
  /\ item_cache[1] + FRESH < now
  /\ xivapi = (1 :> 1) @@ (2 :> 0)
  /\ items = {}

(***************************************************************************)
(* Claims about the sales table under both writers.                        *)
(***************************************************************************)
\* C4: after any sequence of insert_sale / process_sale calls the sales
\* table holds at most one row per (timestamp, item_id, price); a later
\* sale with the key of a stored row, differing in world_id, buyer or
\* quantity, changes nothing: the row first admitted stays as it is.
C4_OneRowPerKey ==
  [][/\ \A r \in sales : r \in sales'
     /\ \A r1, r2 \in sales' : SaleKey(r1) = SaleKey(r2) => r1 = r2]_vars

\* The handle was refused a duplicate, the scraper has written rows too,
\* and two keys are stored.
C4_Witness ==
  /\ sales_skipped.duplicate = 1
  /\ Cardinality(sales) > sales_inserted
  /\ Cardinality(sales) >= 2

\* C5 (as claimed): every row written to sales had, when it was written, a
\* timestamp from now - 7 days up to now.
C5_WrittenWithinTrailingWindow ==
  [][\A r \in sales' \ sales :
       r.timestamp >= now - WEEK /\ r.timestamp <= now]_vars

\* C5 (amended): every row written to sales, by insert_sale or by
\* process_sale, had a timestamp >= now - 7 days when it was written;
\* there is no upper limit, a timestamp later than now is admitted.
C5_WrittenNotOlderThanWeek ==
  [][\A r \in sales' \ sales : r.timestamp >= now - WEEK]_vars

\* Both writers have written, and a stored row lies in the future.
C5_Witness ==
  /\ sales_inserted >= 1
  /\ Cardinality(sales) > sales_inserted
  /\ \E r \in sales : r.timestamp > now
  /\ \E r \in sales : r.timestamp = Epoch - WEEK

(***************************************************************************)
(* Claims about the receive path.                                          *)
(***************************************************************************)
\* A sale of a frame that process_sale would store now: well formed, its
\* world known, inside the window.
Admissible(message, sale) ==
  /\ "timestamp" \in DOMAIN sale
  /\ message.world \in DOMAIN WORLDS
  /\ sale.timestamp >= now - WEEK

Stored(message, sale) ==
  RowsWithKey(sales, <<sale.timestamp, message.item, sale.pricePerUnit>>) # {}

\* C8: when processing one sale of a frame raises, only that sale is lost;
\* the sales after it in the frame are still processed and, if
\* admissible, stored.
C8_RestOfFrameStored ==
  pc = "on_error" =>
    \A i \in 2..Len(unprocessed.sales) :
      Admissible(unprocessed, unprocessed.sales[i])
        => Stored(unprocessed, unprocessed.sales[i])

\* C9: a sale inside the window is stored even when the name lookup for
\* its item failed in that event, items staying without a row for the id.
C9_FailedLookupStillStores ==
  (pc = "on_error" /\ error = "KeyError: 'Name_en'"
     /\ Admissible(unprocessed, unprocessed.sales[1]))
    => Stored(unprocessed, unprocessed.sales[1])

(***************************************************************************)
(* Claims about the worlds table.                                          *)
(***************************************************************************)
\* C12: in the running scraper (bootstrap, then frames through
\* process_sale, across restarts) every row of sales has a world_id for
\* which exactly one row exists in worlds, in every reachable state.
C12_SaleWorldRegistered ==
  \A r \in sales : Cardinality(WorldRows(worlds, r.world_id)) = 1

\* After a restart whose bootstrap found a smaller region, a stored sale
\* is of a world the running process does not know.
C12_Witness ==
  /\ pc = "receiving"
  /\ reopened = 1
  /\ \E r \in sales : r.world_id \notin DOMAIN WORLDS

\* C14: registering a world_id that already has a row, by insert_world or
\* by a bootstrap run on an existing store, succeeds silently and leaves
\* the stored row as it is even when the new name differs; no row of
\* worlds is ever updated or deleted, and only insert_world and bootstrap
\* change the table: no sale processing or name resolution step does.
C14_WorldsImmutable ==
  [][/\ \A w \in worlds : w \in worlds'
     /\ \A w1, w2 \in worlds' : w1.world_id = w2.world_id => w1 = w2
     /\ \A world_id \in WorldIds, world_name \in WorldNames :
          (insert_world(world_id, world_name)
             /\ WorldRows(worlds, world_id) # {})
            => (worlds' = worlds /\ ret'.val = None)
     /\ \A dc_list \in DcLists, world_list \in WorldLists :
          (get_worlds(dc_list, world_list) /\ ~ NoWorlds(DcWorlds(dc_list)))
            => (pc' = "connecting"
                  /\ \A w \in DOMAIN WORLDS' : WorldRows(worlds', w) # {})
     /\ worlds' # worlds
          => \/ GetWorlds
             \/ InsertWorld]_vars

\* insert_world registered world 401 as "Omega", bootstrap then registered
\* it as "Alpha" and insert_world was called for it once more: the row
\* still reads "Omega".
C14_Witness ==
  /\ worlds = {[world_id |-> 401, world_name |-> "Omega"]}
  /\ pc = "receiving"
  /\ WORLDS = (401 :> "Alpha")
  /\ calls = 2
  /\ ret.op = "insert_world"
  /\ item_cache = <<>>
  /\ sales_inserted = 0
  /\ sales_skipped = [too_old |-> 0, duplicate |-> 0]

\* msgs holds exactly one subscribe message for each world id of the
\* catalog, on the channel sales/add{world=<id>}, and no other message.
Subscribed(msgs, catalog) ==
  /\ Len(msgs) = Cardinality(DOMAIN catalog)
  /\ \A w \in DOMAIN catalog :
       Cardinality({i \in DOMAIN msgs :
                      msgs[i] = [event |-> "subscribe",
                                 channel |-> "sales/add{world="
                                               \o ToString(w) \o "}"]}) = 1

C19_SubscribeBeforeReceive ==
  [][/\ (pc = "start" /\ pc' = "connecting")
          => /\ sent' = <<>>
             /\ \A w \in DOMAIN WORLDS' : WorldRows(worlds', w) # {}
     /\ (sent' # sent /\ sent' # <<>>)
          => /\ pc = "connecting"
             /\ sent = <<>>
             /\ worlds' = worlds
             /\ \A w \in DOMAIN WORLDS : WorldRows(worlds, w) # {}
             /\ Subscribed(sent', WORLDS)
     /\ ~ (pc = "receiving" /\ Subscribed(sent, WORLDS)) => ~ OnMessage
     /\ sent' # sent => ~ OnMessage]_vars

\* Two worlds are subscribed to and a sale of the feed has been stored.
C19_Witness ==
  /\ pc = "receiving"
  /\ Len(sent) = 2
  /\ DOMAIN WORLDS = {401, 402}
  /\ sales # {}

\* C20: every sale of an inbound frame is handed to process_sale with the
\* item id and world id of the frame, one at a time in list order, and the
\* frame is finished before the next one is read: after the frame no sale
\* of it is left unprocessed, and of the sales inside the window whose key
\* was free, the first one in the list with that key is the row stored.
C20_EverySaleDispatchedInOrder ==
  [][\A message \in Frames, response \in ItemResponses :
       on_message(message, response)
         => /\ unprocessed' = <<>>
            /\ pc' = "receiving"
            /\ \A i \in DOMAIN message.sales :
                 (/\ message.sales[i].timestamp >= now - WEEK
                  /\ RowsWithKey(sales, SaleKey(FrameRow(message,
                                                  message.sales[i]))) = {}
                  /\ \A j \in 1..(i - 1) :
                       message.sales[j].timestamp # message.sales[i].timestamp)
                   => FrameRow(message, message.sales[i]) \in sales']_vars

\* C21: within one event name resolution precedes storage: process_sale
\* has attempted the resolution of the item's name (the process holds a
\* cache entry for the item) before the window test and before the INSERT,
\* also for a stale sale that is then rejected; so every row written to
\* sales is of an item the process holds a cache entry for, while items
\* may name an item that has no stored sale.
C21_ResolutionBeforeStorage ==
  [][/\ process_sale_insert => unprocessed.item \in DOMAIN ITEM_LAST_CHECKED
     /\ \A t \in txn' :
          t.table = "sales" => t.row.item_id \in DOMAIN ITEM_LAST_CHECKED
     /\ \A r \in sales' \ sales : r.item_id \in DOMAIN ITEM_LAST_CHECKED
     /\ \A r \in sales' : r.item_id \in DOMAIN ITEM_LAST_CHECKED']_vars

\* A frame was handled to its end, the name of its item is stored and no
\* sale is: its sale was stale and rejected after the name was resolved.
C21_Witness ==
  /\ pc = "receiving"
  /\ items = {[item_id |-> 1, item_name |-> "Yan Horn"]}
  /\ sales = {}
  /\ 1 \in DOMAIN ITEM_LAST_CHECKED

\* C22: when insert_world, insert_sale or store_item_name returns, every
\* write it made is committed and nothing uncommitted is pending on the
\* connection; a crash at any point leaves the stored state as the last
\* commit left it, so a crash before the commit of a call leaves the store
\* as it was before the call, and no row is ever stored in part.
C22_CommitPerCall ==
  [][/\ ret'.val # Running => txn' = {}
     /\ ret'.val = Running => store' = store
     /\ (ret.val = Running /\ ret'.val # Running /\ ret'.op = ret.op)
          => \A t \in txn :
               /\ t.table = "sales" => t.row \in sales'
               /\ t.table = "items" => t.row \in items'
               /\ t.table = "worlds" => t.row \in worlds'
     /\ Crash => store' = store
     /\ \A r \in sales' :
          DOMAIN r = {"timestamp", "world_id", "item_id", "price",
                      "quantity", "buyer"}
     /\ \A r \in items' : DOMAIN r = {"item_id", "item_name"}
     /\ \A r \in worlds' : DOMAIN r = {"world_id", "world_name"}]_vars

\* A call that writes was started on the empty store and the process was
\* killed before its commit: the store is empty as before the call.
C22_Witness ==
  /\ reopened = 1
  /\ calls = 1
  /\ ret = [op |-> "__init__", val |-> None]
  /\ sales = {} /\ items = {} /\ worlds = {}
  /\ xivapi = [i \in ItemIds |-> 0]
  /\ sales_skipped = [too_old |-> 0, duplicate |-> 0]

\* C13: whenever the termination signal arrives, also between an INSERT
\* and its commit, the feed connection is closed before the storage
\* handle, the storage handle is closed only after the in-flight write
\* has completed (nothing written is left uncommitted and then lost), the
\* stored rows are whole, and nothing is written once the handle is closed.
C13_CooperativeShutdown ==
  [][/\ graceful_shutdown
          => /\ closed' \in {<<"sql">>, <<"ws", "sql">>}
             /\ pc \notin {"start", "connecting"} => closed' = <<"ws", "sql">>
             /\ \A t \in txn :
                  /\ t.table = "sales" => t.row \in sales'
                  /\ t.table = "items" => t.row \in items'
     /\ closed # <<>>
          => (sales' = sales /\ items' = items /\ worlds' = worlds)
     /\ \A r \in sales' :
          DOMAIN r = {"timestamp", "world_id", "item_id", "price",
                      "quantity", "buyer"}
     /\ \A r \in items' : DOMAIN r = {"item_id", "item_name"}]_vars

(***************************************************************************)
(* Claims about bootstrap.                                                 *)
(***************************************************************************)
\* C10: if the region yields zero worlds at bootstrap the process stops
\* there: no world is registered, the feed connection is never opened, no
\* subscribe message is sent and no sale is processed.
C10_NoWorldsHalts ==
  [][/\ \A dc_list \in DcLists, world_list \in WorldLists :
          (get_worlds(dc_list, world_list) /\ Len(DcWorlds(dc_list)) = 0)
            => pc' = "exited"
     /\ pc' = "exited"
          => /\ pc \in {"start", "exited"}
             /\ worlds' = worlds
             /\ items' = items
             /\ WORLDS' = <<>>
             /\ sent' = <<>>
             /\ ITEM_LAST_CHECKED' = <<>>
             /\ unprocessed' = <<>>
             /\ error' = None
             /\ sales' # sales => calls' = calls + 1]_vars

\* The scraper has stopped at bootstrap while the other writer went on.
C10_Witness ==
  /\ pc = "exited"
  /\ worlds = {}
  /\ calls = MaxCalls

====
